---- MODULE Spec2Model ----
(***************************************************************************)
(* Issue lifecycle and SLA engine of RapidTrack: the in-memory store       *)
(* (MemStorage), the SLA calculator (calculateSlaStatus) and the HTTP      *)
(* handlers of server/routes.ts that mutate issues.  One request is        *)
(* handled at a time: every promise awaited by a handler is already        *)
(* resolved, so a handler runs to its response without another handler     *)
(* running in between.                                                     *)
(***************************************************************************)
EXTENDS Integers, Sequences, FiniteSets, TLC

VARIABLES now, issuesMap, issueIdCounter, activitiesMap, activityIdCounter, req, res

vars == <<now, issuesMap, issueIdCounter, activitiesMap, activityIdCounter, req, res>>

(* ---------------------------------------------------------------- bounds *)
\* The clock counts hours and stops at MaxTime.
MaxTime == 5
\* createIssue is refused by the model once MaxIssues issues exist.
MaxIssues == 1
\* Mutations are refused by the model once the log holds MaxActivities records.
MaxActivities == 3
\* createIssue is refused in AnalyticsSpec once MaxAnalyticsIssues issues exist.
MaxAnalyticsIssues == 2
\* createIssue is refused in PairSpec once MaxPairIssues issues exist.
MaxPairIssues == 2
\* The clock of SlaSpec counts hours and stops at MaxSlaTime, one hour past
\* the deadline of a low-priority issue created at 0.
MaxSlaTime == 49

(* ----------------------------------------------------------- shared/schema *)
UserRole == {"employee", "department", "admin"}

IssueStatus == {"open", "in_progress", "pending", "completed",
                "verified", "rejected", "closed", "escalated"}

Department == {"IT", "HR", "Admin", "Finance", "Legal"}

SLAPriority == {"low", "medium", "high", "critical"}

SLAStatus == {"on_track", "at_risk", "breached", "completed"}

\* A JavaScript undefined/null in a string field, a numeric field and a date.
Undefined == "undefined"
NoUser == 0
NoDate == -1

(* ------------------------------------------------------------------ users *)
\* Users 1..3 are the accounts seedInitialData creates; 4 is a second
\* employee registered through POST /api/register.
usersMap ==
  << [id |-> 1, fullName |-> "Admin User",       role |-> "admin",      department |-> "IT"],
     [id |-> 2, fullName |-> "IT Staff",         role |-> "department", department |-> "IT"],
     [id |-> 3, fullName |-> "Regular Employee", role |-> "employee",   department |-> "Finance"],
     [id |-> 4, fullName |-> "Second Employee",  role |-> "employee",   department |-> "HR"] >>

UserIds == DOMAIN usersMap

(* --------------------------------------------------------- SLA calculator *)
\* SLATimes of shared/schema: the hours an issue of each priority is given.
SLATimes == [low |-> 48, medium |-> 24, high |-> 8, critical |-> 4]

\* hoursToAdd without the case of a high priority, which then gets the default.
hoursToAdd_noHighCase(priority) ==
  CASE priority = "critical" -> 4
    [] priority = "medium"   -> 24
    [] priority = "low"      -> 48
    [] OTHER                 -> 24

\* Hours added to the creation time (createIssue, switch on priority); any
\* other non-empty priority string keeps the default of 24.
hoursToAdd(priority) ==
  CASE priority = "critical" -> 4
    [] priority = "high"     -> 8
    [] priority = "medium"   -> 24
    [] priority = "low"      -> 48
    [] OTHER                 -> 24

\* dueBy as createIssue derives it: absent when the priority is falsy.
dueByOf(priority, createdAt) ==
  IF priority = "" \/ priority = Undefined
    THEN NoDate
    ELSE createdAt + hoursToAdd(priority)

\* calculateSlaStatus reporting a breach from the deadline on, not after it.
calculateSlaStatus_breachedAtDue(issue, t) ==
  IF issue.dueBy = NoDate THEN "on_track"
  ELSE IF issue.status = "verified" \/ issue.status = "closed" THEN "completed"
  ELSE IF t >= issue.dueBy THEN "breached"
  ELSE IF (issue.dueBy - t) * 100 <= 25 * (issue.dueBy - issue.createdAt) THEN "at_risk"
  ELSE "on_track"

\* calculateSlaStatus looking at the deadline before the status: an issue
\* past its deadline stays breached when it is verified or closed.
calculateSlaStatus_lateStaysBreached(issue, t) ==
  IF issue.dueBy = NoDate THEN "on_track"
  ELSE IF t > issue.dueBy THEN "breached"
  ELSE IF issue.status = "verified" \/ issue.status = "closed" THEN "completed"
  ELSE IF (issue.dueBy - t) * 100 <= 25 * (issue.dueBy - issue.createdAt) THEN "at_risk"
  ELSE "on_track"

calculateSlaStatus(issue, t) ==
  IF issue.dueBy = NoDate THEN "on_track"
  ELSE IF issue.status = "verified" \/ issue.status = "closed" THEN "completed"
  ELSE IF t > issue.dueBy THEN "breached"
  ELSE IF (issue.dueBy - t) * 100 <= 25 * (issue.dueBy - issue.createdAt) THEN "at_risk"
  ELSE "on_track"

(* ------------------------------------------------------------- MemStorage *)
\* getIssue: the stored record with its SLA status recomputed, written back.
getIssue(map, id, t) ==
  [map EXCEPT ![id] = [map[id] EXCEPT !.slaStatus = calculateSlaStatus(map[id], t)]]

\* getAllIssues: every stored record with its SLA status recomputed.
getAllIssues(map, t) ==
  [i \in DOMAIN map |-> [map[i] EXCEPT !.slaStatus = calculateSlaStatus(map[i], t)]]

\* updateIssueStatus rebuilding the record with an empty comment list.
updateIssueStatus_resetsComments(map, id, status, t) ==
  LET m1 == getIssue(map, id, t)
      issue == m1[id]
  IN [m1 EXCEPT ![id] =
        [issue EXCEPT
           !.status = status,
           !.updatedAt = t,
           !.comments = << >>,
           !.slaStatus = IF status = "verified" \/ status = "closed"
                           THEN "completed"
                           ELSE calculateSlaStatus([issue EXCEPT !.status = status], t)]]

\* updateIssueStatus restarting the SLA clock: the deadline moves with the update.
updateIssueStatus_movesDueBy(map, id, status, t) ==
  LET m1 == getIssue(map, id, t)
      issue == m1[id]
  IN [m1 EXCEPT ![id] =
        [issue EXCEPT
           !.status = status,
           !.updatedAt = t,
           !.dueBy = dueByOf(issue.priority, t),
           !.slaStatus = IF status = "verified" \/ status = "closed"
                           THEN "completed"
                           ELSE calculateSlaStatus([issue EXCEPT !.status = status], t)]]

\* updateIssueStatus rebuilding the record without the escalation flag.
updateIssueStatus_dropsEscalated(map, id, status, t) ==
  LET m1 == getIssue(map, id, t)
      issue == m1[id]
  IN [m1 EXCEPT ![id] =
        [issue EXCEPT
           !.status = status,
           !.updatedAt = t,
           !.isEscalated = FALSE,
           !.slaStatus = IF status = "verified" \/ status = "closed"
                           THEN "completed"
                           ELSE calculateSlaStatus([issue EXCEPT !.status = status], t)]]

\* updateIssueStatus giving the new status to every stored issue.
updateIssueStatus_everyIssue(map, id, status, t) ==
  LET m1 == getIssue(map, id, t)
  IN [i \in DOMAIN m1 |->
        [m1[i] EXCEPT
           !.status = status,
           !.updatedAt = t,
           !.slaStatus = IF status = "verified" \/ status = "closed"
                           THEN "completed"
                           ELSE calculateSlaStatus([m1[i] EXCEPT !.status = status], t)]]

updateIssueStatus(map, id, status, t) ==
  LET m1 == getIssue(map, id, t)
      issue == m1[id]
  IN [m1 EXCEPT ![id] =
        [issue EXCEPT
           !.status = status,
           !.updatedAt = t,
           !.slaStatus = IF status = "verified" \/ status = "closed"
                           THEN "completed"
                           ELSE calculateSlaStatus([issue EXCEPT !.status = status], t)]]

\* assignIssue moving the issue to in_progress whatever its status.
assignIssue_alwaysInProgress(map, id, assigneeId, t) ==
  LET m1 == getIssue(map, id, t)
      issue == m1[id]
  IN [m1 EXCEPT ![id] =
        [issue EXCEPT !.assigneeId = assigneeId, !.updatedAt = t, !.status = "in_progress"]]

assignIssue(map, id, assigneeId, t) ==
  LET m1 == getIssue(map, id, t)
      issue == m1[id]
  IN [m1 EXCEPT ![id] =
        [issue EXCEPT
           !.assigneeId = assigneeId,
           !.updatedAt = t,
           !.status = IF issue.status = "open" THEN "in_progress" ELSE issue.status]]

\* escalateIssue rebuilding the record without its assignee.
escalateIssue_dropsAssignee(map, id, t) ==
  LET m1 == getIssue(map, id, t)
      issue == m1[id]
  IN [m1 EXCEPT ![id] =
        [issue EXCEPT !.isEscalated = TRUE, !.status = "escalated", !.updatedAt = t,
                      !.assigneeId = NoUser]]

escalateIssue(map, id, t) ==
  LET m1 == getIssue(map, id, t)
      issue == m1[id]
  IN [m1 EXCEPT ![id] =
        [issue EXCEPT !.isEscalated = TRUE, !.status = "escalated", !.updatedAt = t]]

\* The comment id is a nanoid; the model uses the id of the activity that
\* records the comment, which is as unique.
addComment(map, issueId, userId, text, t, commentId) ==
  LET m1 == getIssue(map, issueId, t)
      issue == m1[issueId]
      comment == [id |-> commentId, userId |-> userId,
                  userName |-> usersMap[userId].fullName,
                  text |-> text, timestamp |-> t]
  IN [m1 EXCEPT ![issueId] =
        [issue EXCEPT !.comments = Append(issue.comments, comment), !.updatedAt = t]]

\* MemStorage.updateIssueDepartment is called by routes.ts but its body is
\* not part of the sources at hand; it is modelled from the specification:
\* it changes the department, bumps updatedAt and leaves the rest.
updateIssueDepartment(map, id, department, t) ==
  LET m1 == getIssue(map, id, t)
      issue == m1[id]
  IN [m1 EXCEPT ![id] = [issue EXCEPT !.department = department, !.updatedAt = t]]

\* createActivity without the increment of the id counter: the record takes
\* the place of the latest one.
createActivity_overwritesLast(log, nextId, issueId, userId, action, details, t) ==
  LET a == [id |-> nextId, issueId |-> issueId, userId |-> userId,
            action |-> action, details |-> details, createdAt |-> t]
  IN IF log = << >> THEN <<a>> ELSE [log EXCEPT ![Len(log)] = a]

\* createActivity: the record appended to the log.
createActivity(log, nextId, issueId, userId, action, details, t) ==
  Append(log, [id |-> nextId, issueId |-> issueId, userId |-> userId,
               action |-> action, details |-> details, createdAt |-> t])

\* getActivitiesByIssue: the activities of the issue, latest first.  The sort
\* is stable, so records of one timestamp keep the order they were added in.
RECURSIVE sortByCreatedAtDesc(_)
sortByCreatedAtDesc(s) ==
  IF s = << >> THEN << >>
  ELSE LET latest == CHOOSE k \in DOMAIN s :
                       /\ \A j \in DOMAIN s : s[j].createdAt <= s[k].createdAt
                       /\ \A j \in 1..(k - 1) : s[j].createdAt < s[k].createdAt
           rest == [j \in 1..(Len(s) - 1) |-> IF j < latest THEN s[j] ELSE s[j + 1]]
       IN <<s[latest]>> \o sortByCreatedAtDesc(rest)

\* getActivitiesByIssue without the filter on the issue id.
getActivitiesByIssue_everyIssue(log, issueId) == sortByCreatedAtDesc(log)

getActivitiesByIssue(log, issueId) ==
  LET ofIssue(a) == a.issueId = issueId
  IN sortByCreatedAtDesc(SelectSeq(log, ofIssue))

\* getRecentActivities: the limit latest records of the whole log.
getRecentActivities(log, limit) ==
  LET sorted == sortByCreatedAtDesc(log)
  IN SubSeq(sorted, 1, IF limit < Len(sorted) THEN limit ELSE Len(sorted))

\* getIssuesByReporter and getIssuesByDepartment over what getAllIssues returned.
getIssuesByReporter(issues, userId) ==
  LET reportedBy(issue) == issue.reporterId = userId
  IN SelectSeq(issues, reportedBy)

getIssuesByDepartment(issues, department) ==
  LET inDepartment(issue) == issue.department = department
  IN SelectSeq(issues, inDepartment)

\* The value of undefined + 1.
NaN == -1

\* Math.round of the quotient n / d (d > 0, n >= 0): halves round up.
round(n, d) == (2 * n + d) \div (2 * d)

\* The keys getIssueCountsByStatus starts from; pending is not among them.
CountedStatuses ==
  {"open", "in_progress", "completed", "verified", "rejected", "closed", "escalated"}

\* getIssueCountsByStatus over the issues getAllIssues returned: a status
\* that is not a key of the initial record gets undefined + 1.
getIssueCountsByStatus(issues) ==
  [st \in CountedStatuses \cup {issues[i].status : i \in DOMAIN issues} |->
     IF st \in CountedStatuses
       THEN Cardinality({i \in DOMAIN issues : issues[i].status = st})
       ELSE NaN]

\* getSLAPerformanceByDepartment throws (a TypeError the handler answers with
\* 500) when a verified or closed issue names a department that is not a key
\* of the initial record.
slaPerformanceThrows(issues) ==
  \E i \in DOMAIN issues :
    /\ issues[i].status = "verified" \/ issues[i].status = "closed"
    /\ issues[i].department \notin Department

\* getSLAPerformanceByDepartment counting every issue of the department, not
\* only the verified and closed ones, in the total.
getSLAPerformanceByDepartment_countsAll(issues) ==
  [dept \in Department |->
     LET total == Cardinality({i \in DOMAIN issues : issues[i].department = dept})
         completed == Cardinality({i \in DOMAIN issues :
                         /\ issues[i].status = "verified" \/ issues[i].status = "closed"
                         /\ issues[i].department = dept
                         /\ issues[i].slaStatus # "breached"})
     IN IF total > 0 THEN round(completed * 100, total) ELSE 100]

getSLAPerformanceByDepartment(issues) ==
  [dept \in Department |->
     LET total == Cardinality({i \in DOMAIN issues :
                     /\ issues[i].status = "verified" \/ issues[i].status = "closed"
                     /\ issues[i].department = dept})
         completed == Cardinality({i \in DOMAIN issues :
                         /\ issues[i].status = "verified" \/ issues[i].status = "closed"
                         /\ issues[i].department = dept
                         /\ issues[i].slaStatus # "breached"})
     IN IF total > 0 THEN round(completed * 100, total) ELSE 100]

getEscalatedIssuesCount(issues) ==
  Cardinality({i \in DOMAIN issues : issues[i].isEscalated})

\* newIssue taking the reporter from the request body when it names one.
newIssue_trustsBody(id, body, reporterId, t) ==
  [id |-> id, title |-> body.title, description |-> body.description,
   department |-> body.department, status |-> body.status,
   priority |-> body.priority,
   reporterId |-> IF body.reporterId # NoUser THEN body.reporterId ELSE reporterId,
   assigneeId |-> NoUser, createdAt |-> t, updatedAt |-> t,
   dueBy |-> dueByOf(body.priority, t), slaStatus |-> "on_track",
   isEscalated |-> FALSE, comments |-> << >>]

\* The record createIssue stores.  The handler overwrites the body's
\* reporterId with the id of the authenticated user before it parses the
\* body, so reporterId is the actor's.  The insert schema leaves status optional
\* (the column has a default) and MemStorage applies no default, so a
\* request without status yields a record whose status is undefined.
newIssue(id, body, reporterId, t) ==
  [id |-> id, title |-> body.title, description |-> body.description,
   department |-> body.department, status |-> body.status,
   priority |-> body.priority, reporterId |-> reporterId,
   assigneeId |-> NoUser, createdAt |-> t, updatedAt |-> t,
   dueBy |-> dueByOf(body.priority, t), slaStatus |-> "on_track",
   isEscalated |-> FALSE, comments |-> << >>]

(* --------------------------------------------------------------- requests *)
\* The clock advances in jumps of these many hours: to the deadline of a
\* critical issue created at 0 (4 hours), or past it.
TickHours == {4, 5}

\* Request bodies.  A field the request does not carry is Undefined.
EmptyBody ==
  [title |-> Undefined, description |-> Undefined, department |-> Undefined,
   priority |-> Undefined, status |-> Undefined, text |-> Undefined,
   assigneeId |-> NoUser, reason |-> Undefined, reporterId |-> NoUser]

\* Bodies of POST /api/issues the model sends: three that pass validation
\* (one without a status that names the admin as reporter, one with an empty
\* priority) and one without title.
CreateBodies ==
  LET body == [EmptyBody EXCEPT !.title = "Printer down", !.description = "No toner",
                                !.department = "IT", !.priority = "critical",
                                !.status = "open"]
  IN { body,
       [body EXCEPT !.department = "HR", !.priority = ""],
       [body EXCEPT !.status = Undefined, !.reporterId = 1],
       [body EXCEPT !.title = Undefined] }

\* Users who send POST /api/issues.
Reporters == {3}

\* Target statuses PATCH /api/issues/:id/status is sent.
StatusInputs == IssueStatus

\* Departments PATCH /api/issues/:id/reassign-department is sent.
DepartmentInputs == {"IT", "HR", "Sales"}

\* A comment of 501 characters, one more than the client's form accepts.
LongText ==
  LET ten == "0123456789"
      hundred == ten \o ten \o ten \o ten \o ten \o ten \o ten \o ten \o ten \o ten
  IN hundred \o hundred \o hundred \o hundred \o hundred \o "x"

\* Comment texts POST /api/issues/:id/comments is sent.
TextInputs == {"", "Any news?", LongText}

\* Assignees PATCH /api/issues/:id/assign is sent.
AssigneeInputs == {2}

\* Reasons PATCH /api/issues/:id/escalate is sent: none, and one.
ReasonInputs == {Undefined, "No reply"}

\* Issue ids a request may name: the stored ones and one that is not stored.
IdInputs == 1..(Len(issuesMap) + 1)

NoRequest == [op |-> "none", userId |-> NoUser, id |-> 0, body |-> EmptyBody]
NoResponse == [code |-> 0, message |-> "", issues |-> << >>]

Request(op, u, id, body) == [op |-> op, userId |-> u, id |-> id, body |-> body]

\* res.status(code).json({message}) and res.json(issue or issues).
Answer(code, message) == [code |-> code, message |-> message, issues |-> << >>]
Returned(code, issues) == [code |-> code, message |-> "", issues |-> issues]

Idle == res = NoResponse

\* The model's caps: a mutation is handled only while the log has room.
LogHasRoom == Len(activitiesMap) < MaxActivities

(* ---------------------------------------------------------------- actions *)
Tick ==
  /\ Idle
  /\ \E d \in TickHours : now + d <= MaxTime /\ now' = now + d
  /\ UNCHANGED <<issuesMap, issueIdCounter, activitiesMap, activityIdCounter, req, res>>

\* The response leaves the server; the next request can be handled.
Deliver ==
  /\ ~Idle
  /\ req' = NoRequest
  /\ res' = NoResponse
  /\ UNCHANGED <<now, issuesMap, issueIdCounter, activitiesMap, activityIdCounter>>

\* insertIssueSchema.parse: title, description, department and priority are
\* required strings; status is optional.
validIssueData(body) ==
  /\ body.title # Undefined
  /\ body.description # Undefined
  /\ body.department # Undefined
  /\ body.priority # Undefined

\* POST /api/issues, handled while fewer than maxIssues issues are stored.
CreateIssueUpTo(u, body, maxIssues) ==
  /\ Idle
  /\ req' = Request("createIssue", u, 0, body)
  /\ IF ~validIssueData(body)
       THEN /\ res' = Answer(400, "Invalid issue data")
            /\ UNCHANGED <<now, issuesMap, issueIdCounter, activitiesMap, activityIdCounter>>
       ELSE /\ Len(issuesMap) < maxIssues
            /\ LogHasRoom
            /\ LET id == issueIdCounter
                   issue == newIssue(id, body, u, now)
               IN /\ issuesMap' = Append(issuesMap, issue)
                  /\ issueIdCounter' = issueIdCounter + 1
                  /\ activitiesMap' = createActivity(activitiesMap, activityIdCounter, id, u,
                                                     "created", [title |-> body.title], now)
                  /\ activityIdCounter' = activityIdCounter + 1
                  /\ res' = Returned(201, <<issue>>)
            /\ UNCHANGED now

\* POST /api/issues
CreateIssue(u, body) == CreateIssueUpTo(u, body, MaxIssues)

\* A handler's early answer: the store keeps what getIssue wrote back.
Reject(map, answer) ==
  /\ res' = answer
  /\ issuesMap' = map
  /\ UNCHANGED <<now, issueIdCounter, activitiesMap, activityIdCounter>>

\* An answer given before the store is read.
Refuse(answer) ==
  /\ res' = answer
  /\ UNCHANGED <<now, issuesMap, issueIdCounter, activitiesMap, activityIdCounter>>

\* A handler's success: the store is replaced and one activity is appended.
Accept(map, id, u, action, details) ==
  /\ LogHasRoom
  /\ issuesMap' = map
  /\ activitiesMap' = createActivity(activitiesMap, activityIdCounter, id, u, action, details, now)
  /\ activityIdCounter' = activityIdCounter + 1
  /\ res' = Returned(200, <<map[id]>>)
  /\ UNCHANGED <<now, issueIdCounter>>

Forbidden == Answer(403, "Access forbidden")
InsufficientPermissions == Answer(403, "Insufficient permissions")
IssueNotFound == Answer(404, "Issue not found")
InvalidStatusTransition == Answer(400, "Invalid status transition")

\* getIssueCheck without the department check.
getIssueCheck_noDepartmentCheck(user, issue) ==
  IF user.role = "employee" /\ issue.reporterId # user.id THEN Forbidden
  ELSE NoResponse

\* The early answer of a handler's checks; NoResponse when they all pass.
\* GET /api/issues/:id, "Check access permissions".
getIssueCheck(user, issue) ==
  IF user.role = "employee" /\ issue.reporterId # user.id THEN Forbidden
  ELSE IF user.role = "department" /\ issue.department # user.department THEN Forbidden
  ELSE NoResponse

\* statusCheck without the reporter check of the employee branch.
statusCheck_anyEmployee(user, issue, status) ==
  IF user.role = "employee"
    THEN IF issue.status # "completed" \/ (status # "verified" /\ status # "rejected")
           THEN InvalidStatusTransition
         ELSE NoResponse
  ELSE IF user.role = "department"
    THEN IF issue.department # user.department THEN Forbidden
         ELSE IF status = "in_progress" /\ issue.status = "open" THEN NoResponse
         ELSE IF status = "pending" /\ issue.status = "in_progress" THEN NoResponse
         ELSE IF status = "completed"
                 /\ (issue.status = "in_progress" \/ issue.status = "pending")
           THEN NoResponse
         ELSE InvalidStatusTransition
  ELSE NoResponse

\* statusCheck without the department check of the department branch.
statusCheck_anyDepartment(user, issue, status) ==
  IF user.role = "employee"
    THEN IF issue.reporterId # user.id THEN Forbidden
         ELSE IF issue.status # "completed" \/ (status # "verified" /\ status # "rejected")
           THEN InvalidStatusTransition
         ELSE NoResponse
  ELSE IF user.role = "department"
    THEN IF status = "in_progress" /\ issue.status = "open" THEN NoResponse
         ELSE IF status = "pending" /\ issue.status = "in_progress" THEN NoResponse
         ELSE IF status = "completed"
                 /\ (issue.status = "in_progress" \/ issue.status = "pending")
           THEN NoResponse
         ELSE InvalidStatusTransition
  ELSE NoResponse

\* PATCH /api/issues/:id/status, "Validate status transitions based on role".
statusCheck(user, issue, status) ==
  IF user.role = "employee"
    THEN IF issue.reporterId # user.id THEN Forbidden
         ELSE IF issue.status # "completed" \/ (status # "verified" /\ status # "rejected")
           THEN InvalidStatusTransition
         ELSE NoResponse
  ELSE IF user.role = "department"
    THEN IF issue.department # user.department THEN Forbidden
         ELSE IF status = "in_progress" /\ issue.status = "open" THEN NoResponse
         ELSE IF status = "pending" /\ issue.status = "in_progress" THEN NoResponse
         ELSE IF status = "completed"
                 /\ (issue.status = "in_progress" \/ issue.status = "pending")
           THEN NoResponse
         ELSE InvalidStatusTransition
  ELSE NoResponse

\* assignCheck without the department check.
assignCheck_anyDepartment(user, issue) == NoResponse

\* PATCH /api/issues/:id/assign, the department check.
assignCheck(user, issue) ==
  IF user.role = "department" /\ issue.department # user.department THEN Forbidden
  ELSE NoResponse

\* escalateCheck looking at the escalation flag before the reporter.
escalateCheck_flagBeforeReporter(user, issue) ==
  IF user.role = "employee"
    THEN IF issue.isEscalated THEN Answer(400, "Issue is already escalated")
         ELSE IF issue.reporterId # user.id THEN Forbidden
         ELSE IF issue.status = "verified" \/ issue.status = "closed"
           THEN Answer(400, "Cannot escalate verified or closed issues")
         ELSE NoResponse
  ELSE IF user.role = "department"
    THEN IF issue.department # user.department THEN Forbidden ELSE NoResponse
  ELSE NoResponse

\* PATCH /api/issues/:id/escalate, "Check permissions based on role".
escalateCheck(user, issue) ==
  IF user.role = "employee"
    THEN IF issue.reporterId # user.id THEN Forbidden
         ELSE IF issue.isEscalated THEN Answer(400, "Issue is already escalated")
         ELSE IF issue.status = "verified" \/ issue.status = "closed"
           THEN Answer(400, "Cannot escalate verified or closed issues")
         ELSE NoResponse
  ELSE IF user.role = "department"
    THEN IF issue.department # user.department THEN Forbidden ELSE NoResponse
  ELSE NoResponse

\* POST /api/issues/:id/comments, "Check access permissions".
commentCheck(user, issue) ==
  IF user.role = "employee" /\ issue.reporterId # user.id THEN Forbidden
  ELSE IF user.role = "department" /\ issue.department # user.department THEN Forbidden
  ELSE NoResponse

\* GET /api/issues/:id
GetIssue(u, id) ==
  /\ Idle
  /\ req' = Request("getIssue", u, id, EmptyBody)
  /\ IF id \notin DOMAIN issuesMap THEN Refuse(IssueNotFound)
     ELSE LET m1 == getIssue(issuesMap, id, now)
              early == getIssueCheck(usersMap[u], m1[id])
          IN IF early # NoResponse THEN Reject(m1, early)
             ELSE /\ res' = Returned(200, <<m1[id]>>)
                  /\ issuesMap' = m1
                  /\ UNCHANGED <<now, issueIdCounter, activitiesMap, activityIdCounter>>

\* GET /api/issues (requireRole admin)
ListAllIssues(u) ==
  /\ Idle
  /\ req' = Request("listAllIssues", u, 0, EmptyBody)
  /\ IF usersMap[u].role # "admin" THEN Refuse(InsufficientPermissions)
     ELSE LET all == getAllIssues(issuesMap, now)
          IN /\ issuesMap' = all
             /\ res' = Returned(200, all)
             /\ UNCHANGED <<now, issueIdCounter, activitiesMap, activityIdCounter>>

\* GET /api/issues/me
ListMyIssues(u) ==
  /\ Idle
  /\ req' = Request("listMyIssues", u, 0, EmptyBody)
  /\ LET all == getAllIssues(issuesMap, now)
         user == usersMap[u]
         mine(issue) ==
           CASE user.role = "employee"   -> issue.reporterId = user.id
             [] user.role = "department" -> issue.department = user.department
             [] user.role = "admin"      -> \/ issue.isEscalated
                                            \/ issue.slaStatus = "breached"
                                            \/ issue.slaStatus = "at_risk"
     IN /\ issuesMap' = all
        /\ res' = Returned(200, SelectSeq(all, mine))
        /\ UNCHANGED <<now, issueIdCounter, activitiesMap, activityIdCounter>>

\* GET /api/issues/department/:department (requireRole department, admin)
ListDepartmentIssues(u, department) ==
  /\ Idle
  /\ req' = Request("listDepartmentIssues", u, 0, [EmptyBody EXCEPT !.department = department])
  /\ IF usersMap[u].role \notin {"department", "admin"} THEN Refuse(InsufficientPermissions)
     ELSE LET all == getAllIssues(issuesMap, now)
              inDepartment(issue) == issue.department = department
          IN /\ issuesMap' = all
             /\ res' = Returned(200, SelectSeq(all, inDepartment))
             /\ UNCHANGED <<now, issueIdCounter, activitiesMap, activityIdCounter>>

\* PATCH /api/issues/:id/status
UpdateStatus(u, id, status) ==
  /\ Idle
  /\ req' = Request("updateStatus", u, id, [EmptyBody EXCEPT !.status = status])
  /\ IF id \notin DOMAIN issuesMap THEN Refuse(IssueNotFound)
     ELSE LET m1 == getIssue(issuesMap, id, now)
              early == statusCheck(usersMap[u], m1[id], status)
          IN IF early # NoResponse THEN Reject(m1, early)
             ELSE Accept(updateIssueStatus(m1, id, status, now), id, u, "updated_status",
                         [fromStatus |-> m1[id].status, toStatus |-> status])

\* PATCH /api/issues/:id/assign (requireRole department, admin)
AssignIssue(u, id, assigneeId) ==
  /\ Idle
  /\ req' = Request("assign", u, id, [EmptyBody EXCEPT !.assigneeId = assigneeId])
  /\ IF usersMap[u].role \notin {"department", "admin"} THEN Refuse(InsufficientPermissions)
     ELSE IF id \notin DOMAIN issuesMap THEN Refuse(IssueNotFound)
     ELSE LET m1 == getIssue(issuesMap, id, now)
              early == assignCheck(usersMap[u], m1[id])
          IN IF early # NoResponse THEN Reject(m1, early)
             ELSE Accept(assignIssue(m1, id, assigneeId, now), id, u, "assigned",
                         [assigneeId |-> assigneeId])

\* PATCH /api/issues/:id/escalate
EscalateIssue(u, id, reason) ==
  /\ Idle
  /\ req' = Request("escalate", u, id, [EmptyBody EXCEPT !.reason = reason])
  /\ IF id \notin DOMAIN issuesMap THEN Refuse(IssueNotFound)
     ELSE LET m1 == getIssue(issuesMap, id, now)
              early == escalateCheck(usersMap[u], m1[id])
          IN IF early # NoResponse THEN Reject(m1, early)
             ELSE Accept(escalateIssue(m1, id, now), id, u, "escalated",
                         [reason |-> IF reason = Undefined THEN "Manual escalation"
                                                           ELSE reason])

\* POST /api/issues/:id/comments; storage.addComment appends the activity.
AddComment(u, id, text) ==
  /\ Idle
  /\ req' = Request("addComment", u, id, [EmptyBody EXCEPT !.text = text])
  /\ IF text = Undefined \/ text = "" THEN Refuse(Answer(400, "Comment text is required"))
     ELSE IF id \notin DOMAIN issuesMap THEN Refuse(IssueNotFound)
     ELSE LET m1 == getIssue(issuesMap, id, now)
              early == commentCheck(usersMap[u], m1[id])
          IN IF early # NoResponse THEN Reject(m1, early)
             ELSE Accept(addComment(m1, id, u, text, now, activityIdCounter), id, u,
                         "commented", [commentId |-> activityIdCounter])

\* GET /api/issues/:id/activities, "Check access permissions".
activitiesCheck(user, issue) ==
  IF user.role = "employee" /\ issue.reporterId # user.id THEN Forbidden
  ELSE IF user.role = "department" /\ issue.department # user.department THEN Forbidden
  ELSE NoResponse

\* GET /api/issues/:id/activities
ListActivities(u, id) ==
  /\ Idle
  /\ req' = Request("listActivities", u, id, EmptyBody)
  /\ IF id \notin DOMAIN issuesMap THEN Refuse(IssueNotFound)
     ELSE LET m1 == getIssue(issuesMap, id, now)
              early == activitiesCheck(usersMap[u], m1[id])
          IN IF early # NoResponse THEN Reject(m1, early)
             ELSE /\ res' = Returned(200, getActivitiesByIssue(activitiesMap, id))
                  /\ issuesMap' = m1
                  /\ UNCHANGED <<now, issueIdCounter, activitiesMap, activityIdCounter>>

\* GET /api/activities/recent?limit=n; a limit of 0, or none, reads as 10.
\* The limit is applied to the whole log, the actor's filter to what is left.
ListRecentActivities(u, limit) ==
  /\ Idle
  /\ req' = Request("listRecentActivities", u, limit, EmptyBody)
  /\ LET user == usersMap[u]
         activities == getRecentActivities(activitiesMap, IF limit = 0 THEN 10 ELSE limit)
         all == getAllIssues(issuesMap, now)
         userIssues == getIssuesByReporter(all, user.id)
         departmentIssues == getIssuesByDepartment(all, user.department)
         ofUser(a) == \E k \in DOMAIN userIssues : userIssues[k].id = a.issueId
         ofDepartment(a) == \E k \in DOMAIN departmentIssues : departmentIssues[k].id = a.issueId
     IN /\ res' = Returned(200, CASE user.role = "employee"   -> SelectSeq(activities, ofUser)
                                  [] user.role = "department" -> SelectSeq(activities, ofDepartment)
                                  [] OTHER                    -> activities)
        /\ issuesMap' = IF user.role = "admin" THEN issuesMap ELSE all
        /\ UNCHANGED <<now, issueIdCounter, activitiesMap, activityIdCounter>>

\* GET /api/analytics (requireRole admin, department); the report is the
\* one element of the response's body.
GetAnalytics(u) ==
  /\ Idle
  /\ req' = Request("getAnalytics", u, 0, EmptyBody)
  /\ IF usersMap[u].role \notin {"admin", "department"} THEN Refuse(InsufficientPermissions)
     ELSE LET all == getAllIssues(issuesMap, now)
              slaPerformance == getSLAPerformanceByDepartment(all)
              statusCounts == getIssueCountsByStatus(all)
              sum(a, b) == IF a = NaN \/ b = NaN THEN NaN ELSE a + b
              total == slaPerformance["IT"] + slaPerformance["HR"] + slaPerformance["Admin"]
                         + slaPerformance["Finance"] + slaPerformance["Legal"]
          IN /\ issuesMap' = all
             /\ UNCHANGED <<now, issueIdCounter, activitiesMap, activityIdCounter>>
             /\ res' = IF slaPerformanceThrows(all)
                         THEN Answer(500, "Failed to fetch analytics data")
                         ELSE Returned(200,
                                << [departmentPerformance |-> slaPerformance,
                                    overallPerformance |-> round(total, Cardinality(Department)),
                                    statusCounts |-> statusCounts,
                                    openIssues |-> sum(sum(statusCounts["open"],
                                                           statusCounts["in_progress"]),
                                                       statusCounts["escalated"]),
                                    resolvedIssues |-> sum(statusCounts["verified"],
                                                           statusCounts["closed"]),
                                    escalatedCount |-> getEscalatedIssuesCount(all)] >>)

\* ReassignDepartment recording the two departments the wrong way round.
ReassignDepartment_swapsDetails(u, id, department) ==
  /\ Idle
  /\ req' = Request("reassignDepartment", u, id, [EmptyBody EXCEPT !.department = department])
  /\ IF usersMap[u].role # "admin" THEN Refuse(InsufficientPermissions)
     ELSE IF department = Undefined \/ department \notin Department
       THEN Refuse(Answer(400, "Valid department is required"))
     ELSE IF id \notin DOMAIN issuesMap THEN Refuse(IssueNotFound)
     ELSE LET m1 == getIssue(issuesMap, id, now)
          IN IF m1[id].department = department
               THEN Reject(m1, Answer(400, "Issue is already assigned to this department"))
             ELSE Accept(updateIssueDepartment(m1, id, department, now), id, u,
                         "department_changed",
                         [fromDepartment |-> department, toDepartment |-> m1[id].department])

\* ReassignDepartment with the client's convention as a precondition: the
\* issue must be escalated, at risk or breached.
ReassignDepartment_onlyWhenFlagged(u, id, department) ==
  /\ Idle
  /\ req' = Request("reassignDepartment", u, id, [EmptyBody EXCEPT !.department = department])
  /\ IF usersMap[u].role # "admin" THEN Refuse(InsufficientPermissions)
     ELSE IF department = Undefined \/ department \notin Department
       THEN Refuse(Answer(400, "Valid department is required"))
     ELSE IF id \notin DOMAIN issuesMap THEN Refuse(IssueNotFound)
     ELSE LET m1 == getIssue(issuesMap, id, now)
          IN IF m1[id].department = department
               THEN Reject(m1, Answer(400, "Issue is already assigned to this department"))
             ELSE IF ~(m1[id].isEscalated \/ m1[id].slaStatus \in {"at_risk", "breached"})
               THEN Reject(m1, Forbidden)
             ELSE Accept(updateIssueDepartment(m1, id, department, now), id, u,
                         "department_changed",
                         [fromDepartment |-> m1[id].department, toDepartment |-> department])

\* ReassignDepartment without the check of the current department.
ReassignDepartment_noNoOpCheck(u, id, department) ==
  /\ Idle
  /\ req' = Request("reassignDepartment", u, id, [EmptyBody EXCEPT !.department = department])
  /\ IF usersMap[u].role # "admin" THEN Refuse(InsufficientPermissions)
     ELSE IF department = Undefined \/ department \notin Department
       THEN Refuse(Answer(400, "Valid department is required"))
     ELSE IF id \notin DOMAIN issuesMap THEN Refuse(IssueNotFound)
     ELSE LET m1 == getIssue(issuesMap, id, now)
          IN Accept(updateIssueDepartment(m1, id, department, now), id, u,
                    "department_changed",
                    [fromDepartment |-> m1[id].department, toDepartment |-> department])

\* PATCH /api/issues/:id/reassign-department (requireRole admin)
ReassignDepartment(u, id, department) ==
  /\ Idle
  /\ req' = Request("reassignDepartment", u, id, [EmptyBody EXCEPT !.department = department])
  /\ IF usersMap[u].role # "admin" THEN Refuse(InsufficientPermissions)
     ELSE IF department = Undefined \/ department \notin Department
       THEN Refuse(Answer(400, "Valid department is required"))
     ELSE IF id \notin DOMAIN issuesMap THEN Refuse(IssueNotFound)
     ELSE LET m1 == getIssue(issuesMap, id, now)
          IN IF m1[id].department = department
               THEN Reject(m1, Answer(400, "Issue is already assigned to this department"))
             ELSE Accept(updateIssueDepartment(m1, id, department, now), id, u,
                         "department_changed",
                         [fromDepartment |-> m1[id].department, toDepartment |-> department])

(* ---------------------------------------------------------- specification *)
Init ==
  /\ now = 0
  /\ issuesMap = << >>
  /\ issueIdCounter = 1
  /\ activitiesMap = << >>
  /\ activityIdCounter = 1
  /\ req = NoRequest
  /\ res = NoResponse

Next ==
  \/ Tick
  \/ Deliver
  \/ \E u \in Reporters, body \in CreateBodies : CreateIssue(u, body)
  \/ \E u \in UserIds, id \in IdInputs : GetIssue(u, id)
  \/ \E u \in UserIds : ListAllIssues(u)
  \/ \E u \in UserIds : ListMyIssues(u)
  \/ \E u \in UserIds, d \in DepartmentInputs : ListDepartmentIssues(u, d)
  \/ \E u \in UserIds, id \in IdInputs, status \in StatusInputs : UpdateStatus(u, id, status)
  \/ \E u \in UserIds, id \in IdInputs, a \in AssigneeInputs : AssignIssue(u, id, a)
  \/ \E u \in UserIds, id \in IdInputs, r \in ReasonInputs : EscalateIssue(u, id, r)
  \/ \E u \in UserIds, id \in IdInputs, text \in TextInputs : AddComment(u, id, text)
  \/ \E u \in UserIds, id \in IdInputs, d \in DepartmentInputs : ReassignDepartment(u, id, d)
  \/ \E u \in UserIds, id \in IdInputs : ListActivities(u, id)

Spec == Init /\ [][Next]_vars

(* ------------------------------------------- specification of the SLA clock *)
\* Creation and reading only, every priority, hour by hour: the behaviours
\* along which an issue's deadline comes and passes.
\* Bodies of POST /api/issues: every priority, an empty one and one that is
\* not a priority, with the status open or closed; one with an empty title
\* and one without a priority.
SlaBodies ==
  LET body == [EmptyBody EXCEPT !.title = "Printer down", !.description = "No toner",
                                !.department = "IT", !.priority = "critical",
                                !.status = "open"]
  IN { [body EXCEPT !.priority = p, !.status = st] :
         p \in SLAPriority \cup {"", "urgent"}, st \in {"open", "closed"} }
       \cup { [body EXCEPT !.title = ""], [body EXCEPT !.priority = Undefined] }

\* Users who read in SlaSpec: the admin and the reporter.
SlaReaders == {1, 3}

\* One hour passes.
SlaTick ==
  /\ Idle
  /\ now < MaxSlaTime
  /\ now' = now + 1
  /\ UNCHANGED <<issuesMap, issueIdCounter, activitiesMap, activityIdCounter, req, res>>

SlaNext ==
  \/ SlaTick
  \/ Deliver
  \/ \E u \in Reporters, body \in SlaBodies : CreateIssue(u, body)
  \/ \E u \in SlaReaders, id \in IdInputs : GetIssue(u, id)

SlaSpec == Init /\ [][SlaNext]_vars

(* -------------------------------------------- specification of the analytics *)
\* Several issues in several states, and the analytics read over them.
\* Bodies of POST /api/issues: a department (one of them not a department of
\* the schema) and a status.
AnalyticsBodies ==
  LET body == [EmptyBody EXCEPT !.title = "Printer down", !.description = "No toner",
                                !.department = "IT", !.priority = "critical",
                                !.status = "open"]
  IN { [body EXCEPT !.department = d, !.status = st] :
         d \in {"IT", "HR", "Sales"}, st \in {"open", "pending", "closed"} }

AnalyticsNext ==
  \/ Tick
  \/ Deliver
  \/ \E u \in Reporters, body \in AnalyticsBodies :
       CreateIssueUpTo(u, body, MaxAnalyticsIssues)
  \/ \E id \in IdInputs : EscalateIssue(1, id, Undefined)
  \/ \E u \in UserIds : GetAnalytics(u)

AnalyticsSpec == Init /\ [][AnalyticsNext]_vars

(* ------------------------------------------- specification of two issues *)
\* Two issues of two departments side by side, every mutation and the reads
\* that span issues.
\* Bodies of POST /api/issues: one issue for IT, one for HR.
PairBodies ==
  LET body == [EmptyBody EXCEPT !.title = "Printer down", !.description = "No toner",
                                !.department = "IT", !.priority = "critical",
                                !.status = "open"]
  IN { body, [body EXCEPT !.department = "HR"] }

\* Target statuses PATCH /api/issues/:id/status is sent in PairSpec.
PairStatusInputs == {"in_progress", "closed"}

\* Limits GET /api/activities/recent is sent: none, one and two.
LimitInputs == {0, 1, 2}

PairNext ==
  \/ Tick
  \/ Deliver
  \/ \E u \in Reporters, body \in PairBodies : CreateIssueUpTo(u, body, MaxPairIssues)
  \/ \E u \in UserIds, id \in IdInputs, status \in PairStatusInputs : UpdateStatus(u, id, status)
  \/ \E u \in UserIds, id \in IdInputs, a \in AssigneeInputs : AssignIssue(u, id, a)
  \/ \E u \in UserIds, id \in IdInputs : EscalateIssue(u, id, Undefined)
  \/ \E u \in UserIds, id \in IdInputs : AddComment(u, id, "Any news?")
  \/ \E u \in UserIds, id \in IdInputs : ReassignDepartment(u, id, "HR")
  \/ \E u \in UserIds, id \in IdInputs : ListActivities(u, id)
  \/ \E u \in UserIds, limit \in LimitInputs : ListRecentActivities(u, limit)
  \/ \E u \in UserIds : GetAnalytics(u)

PairSpec == Init /\ [][PairNext]_vars

(* ----------------------------------------------------------------- claims *)
\* The failure kinds of the specification, read off the handlers' answers.
ErrorKind(r) ==
  CASE r.code = 200 \/ r.code = 201 -> "ok"
    [] r.code = 404 -> "NotFound"
    [] r.code = 403 -> "Forbidden"
    [] r.code = 400 /\ r.message = "Invalid status transition" -> "InvalidTransition"
    [] r.code = 400 /\ r.message = "Cannot escalate verified or closed issues"
         -> "InvalidTransition"
    [] r.code = 400 /\ r.message = "Issue is already escalated" -> "AlreadyEscalated"
    [] r.code = 400 /\ r.message = "Issue is already assigned to this department"
         -> "NoOpChange"
    [] r.code = 400 -> "ValidationError"
    [] OTHER -> "none"

Terminal == {"verified", "closed"}
Working == {"in_progress", "pending", "completed"}

\* The edges of the status graph.
Edges ==
  { <<"open", "in_progress">>, <<"in_progress", "pending">>, <<"in_progress", "completed">>,
    <<"pending", "in_progress">>, <<"pending", "completed">>,
    <<"completed", "verified">>, <<"completed", "rejected">> }

\* The edges a Department-Staff actor works along.
StaffEdges ==
  { <<"open", "in_progress">>, <<"in_progress", "pending">>, <<"in_progress", "completed">>,
    <<"pending", "in_progress">>, <<"pending", "completed">> }

\* This step handles a request of kind op that names a stored issue.
Handles(op) == Idle /\ req'.op = op /\ req'.id \in DOMAIN issuesMap

\* This step leaves issue i as it was; slaStatus, the cached SLA status every
\* read recomputes, is not compared.
Untouched(i) == issuesMap'[i] = [issuesMap[i] EXCEPT !.slaStatus = issuesMap'[i].slaStatus]

LogUntouched == activitiesMap' = activitiesMap /\ activityIdCounter' = activityIdCounter

\* The actors within whose scope an issue lies: its reporter, the staff of
\* its department, an Admin.
InScope(user, issue) ==
  \/ user.role = "admin"
  \/ user.role = "department" /\ user.department = issue.department
  \/ user.role = "employee" /\ user.id = issue.reporterId

\* C1: updateStatus on a stored issue succeeds only along an edge of the
\* status graph; for any other pair (current status, target) it is rejected
\* as InvalidTransition (as Forbidden for an actor outside the issue's
\* scope) and the stored issue is unchanged.  The pairs checked are those of
\* two different statuses, so that a violation is a real change of status.
C1_OnlyEdgesSucceed ==
  [][ (Handles("updateStatus") /\ issuesMap[req'.id].status \in IssueStatus)
        => LET from == issuesMap[req'.id].status
               to == req'.body.status
           IN (<<from, to>> \notin Edges /\ from # to)
                => /\ ErrorKind(res') \in {"InvalidTransition", "Forbidden"}
                   /\ Untouched(req'.id)
                   /\ LogUntouched ]_vars

\* C2: an issue whose status is verified or closed keeps a status in
\* {verified, closed} in every later state, whatever operation is handled.
C2_TerminalStaysTerminal ==
  [][ \A i \in DOMAIN issuesMap :
        issuesMap[i].status \in Terminal => issuesMap'[i].status \in Terminal ]_vars

\* C3: every issue a read returns (getIssue and the list operations) whose
\* status is verified or closed carries slaStatus completed.
C3_TerminalReadsCompleted ==
  (req.op \in {"getIssue", "listAllIssues", "listMyIssues", "listDepartmentIssues"}
     /\ res.code = 200)
    => \A k \in DOMAIN res.issues :
         res.issues[k].status \in Terminal => res.issues[k].slaStatus = "completed"

\* C4: the escalated flag is one-way: an issue with isEscalated true has
\* isEscalated true after every step.
C4_EscalatedIsOneWay ==
  [][ \A i \in DOMAIN issuesMap :
        issuesMap[i].isEscalated => issuesMap'[i].isEscalated ]_vars

\* C4 witness: an issue was escalated, a later status update was applied to
\* it, and it is still flagged.
C4_EscalatedThenUpdated ==
  \E k \in DOMAIN activitiesMap :
    /\ activitiesMap[k].action = "escalated"
    /\ k < Len(activitiesMap)
    /\ activitiesMap[Len(activitiesMap)].action = "updated_status"
    /\ activitiesMap[Len(activitiesMap)].issueId = activitiesMap[k].issueId
    /\ issuesMap[activitiesMap[k].issueId].isEscalated
    /\ issuesMap[activitiesMap[k].issueId].status # "escalated"

\* C5: escalate on an issue that is already escalated, by an actor in whose
\* scope it lies, is rejected as AlreadyEscalated and leaves the issue and
\* the activity log unchanged.
C5_SecondEscalateRejected ==
  [][ (Handles("escalate")
         /\ issuesMap[req'.id].isEscalated
         /\ InScope(usersMap[req'.userId], issuesMap[req'.id]))
        => /\ ErrorKind(res') = "AlreadyEscalated"
           /\ Untouched(req'.id)
           /\ LogUntouched ]_vars

\* C6: escalate on an issue whose status is verified or closed (and that is
\* not escalated yet), by an actor in whose scope it lies, is rejected as
\* InvalidTransition and leaves status, isEscalated and the log unchanged.
C6_EscalateTerminalRejected ==
  [][ (Handles("escalate")
         /\ issuesMap[req'.id].status \in Terminal
         /\ ~issuesMap[req'.id].isEscalated
         /\ InScope(usersMap[req'.userId], issuesMap[req'.id]))
        => /\ ErrorKind(res') = "InvalidTransition"
           /\ issuesMap'[req'.id].status = issuesMap[req'.id].status
           /\ issuesMap'[req'.id].isEscalated = issuesMap[req'.id].isEscalated
           /\ LogUntouched ]_vars

\* This step handles a getIssue, addComment or updateStatus request that an
\* Employee sends against a stored issue reported by somebody else.
NonReporterAttempt ==
  /\ Idle
  /\ req'.op \in {"getIssue", "addComment", "updateStatus"}
  /\ req'.id \in DOMAIN issuesMap
  /\ usersMap[req'.userId].role = "employee"
  /\ issuesMap[req'.id].reporterId # req'.userId

\* C7 as stated: every getIssue, addComment and updateStatus of an Employee
\* against an issue they did not report is answered Forbidden, and the issue
\* and the activity log are unchanged.
C7_NonReporterAlwaysForbidden ==
  [][ NonReporterAttempt
        => /\ ErrorKind(res') = "Forbidden"
           /\ Untouched(req'.id)
           /\ LogUntouched ]_vars

\* C7 as amended: the same, except that addComment with an empty text is
\* answered ValidationError, the text being checked before the access rule.
C7_NonReporterForbidden ==
  [][ NonReporterAttempt
        => /\ ErrorKind(res') =
                IF req'.op = "addComment" /\ req'.body.text \in {"", Undefined}
                  THEN "ValidationError" ELSE "Forbidden"
           /\ Untouched(req'.id)
           /\ LogUntouched ]_vars

\* C7 witness: the second employee tried to verify a completed issue of the
\* first employee and was answered Forbidden.
C7_NonReporterRefused ==
  /\ req.op = "updateStatus"
  /\ req.userId = 4
  /\ req.body.status = "verified"
  /\ req.id \in DOMAIN issuesMap
  /\ issuesMap[req.id].status = "completed"
  /\ issuesMap[req.id].reporterId = 3
  /\ res = Forbidden

\* C8: an updateStatus to verified or rejected succeeds only for the issue's
\* reporter, an Employee, and only from status completed.
C8_OnlyReporterVerifies ==
  [][ (Handles("updateStatus")
         /\ req'.body.status \in {"verified", "rejected"}
         /\ ErrorKind(res') = "ok")
        => /\ usersMap[req'.userId].role = "employee"
           /\ issuesMap[req'.id].reporterId = req'.userId
           /\ issuesMap[req'.id].status = "completed" ]_vars

\* C9: a step that changes an issue's status to in_progress, pending or
\* completed is the request of an Admin or of Department-Staff of the issue's
\* department; an updateStatus to one of these statuses by an Employee or by
\* Department-Staff of another department does not succeed and leaves the
\* issue and the activity log unchanged.
C9_WorkingStatusByStaffOrAdmin ==
  [][ /\ \A i \in DOMAIN issuesMap :
            (issuesMap'[i].status \in Working /\ issuesMap'[i].status # issuesMap[i].status)
              => LET user == usersMap[req'.userId]
                 IN \/ user.role = "admin"
                    \/ user.role = "department" /\ user.department = issuesMap[i].department
      /\ (Handles("updateStatus") /\ req'.body.status \in Working)
            => LET user == usersMap[req'.userId]
                   issue == issuesMap[req'.id]
               IN (\/ user.role = "employee"
                   \/ user.role = "department" /\ user.department # issue.department)
                    => /\ ErrorKind(res') \in {"Forbidden", "InvalidTransition"}
                       /\ Untouched(req'.id)
                       /\ LogUntouched ]_vars

\* C9 witness: Department-Staff of the issue's department moved it to
\* in_progress, and the reporter's request to complete it was then rejected.
C9_ReporterCannotComplete ==
  /\ req.op = "updateStatus"
  /\ req.userId = 3
  /\ req.body.status = "completed"
  /\ req.id \in DOMAIN issuesMap
  /\ issuesMap[req.id].reporterId = 3
  /\ issuesMap[req.id].status = "in_progress"
  /\ res = InvalidStatusTransition
  /\ \E k \in DOMAIN activitiesMap :
       /\ activitiesMap[k].action = "updated_status"
       /\ activitiesMap[k].userId = 2
       /\ activitiesMap[k].details.toStatus = "in_progress"

\* C10: for Department-Staff on an issue of their department, updateStatus
\* along each of open->in_progress, in_progress->pending,
\* in_progress->completed, pending->in_progress and pending->completed
\* succeeds, sets the status to the target and appends exactly one
\* updated_status activity carrying the status before and the target.
C10_StaffEdgesSucceed ==
  [][ (Handles("updateStatus")
         /\ usersMap[req'.userId].role = "department"
         /\ usersMap[req'.userId].department = issuesMap[req'.id].department
         /\ <<issuesMap[req'.id].status, req'.body.status>> \in StaffEdges)
        => /\ ErrorKind(res') = "ok"
           /\ issuesMap'[req'.id].status = req'.body.status
           /\ Len(activitiesMap') = Len(activitiesMap) + 1
           /\ SubSeq(activitiesMap', 1, Len(activitiesMap)) = activitiesMap
           /\ LET a == activitiesMap'[Len(activitiesMap')]
              IN /\ a.action = "updated_status"
                 /\ a.issueId = req'.id
                 /\ a.userId = req'.userId
                 /\ a.details = [fromStatus |-> issuesMap[req'.id].status,
                                 toStatus |-> req'.body.status] ]_vars

\* This step appends exactly one activity, of the given kind, for the
\* request's issue and actor, with the given details.
Appends(action, details) ==
  /\ Len(activitiesMap') = Len(activitiesMap) + 1
  /\ SubSeq(activitiesMap', 1, Len(activitiesMap)) = activitiesMap
  /\ LET a == activitiesMap'[Len(activitiesMap')]
     IN /\ a.action = action
        /\ a.issueId = req'.id
        /\ a.userId = req'.userId
        /\ a.details = details

\* C11: escalate by the issue's reporter succeeds only if the issue is not
\* escalated, its status is not verified or closed, and its SLA status is
\* breached, or its status is rejected, or more than 48 hours have passed
\* since its creation; otherwise the call is rejected and the issue and the
\* activity log are unchanged.
C11_ReporterEscalateGated ==
  [][ (Handles("escalate")
         /\ usersMap[req'.userId].role = "employee"
         /\ issuesMap[req'.id].reporterId = req'.userId)
        => LET issue == issuesMap[req'.id]
               allowed == /\ ~issue.isEscalated
                          /\ issue.status \notin Terminal
                          /\ \/ calculateSlaStatus(issue, now) = "breached"
                             \/ issue.status = "rejected"
                             \/ now - issue.createdAt > 48
           IN ~allowed => /\ ErrorKind(res') # "ok"
                          /\ Untouched(req'.id)
                          /\ LogUntouched ]_vars

\* C12: a successful escalate sets isEscalated and status escalated, appends
\* exactly one escalated activity carrying the request's reason ("Manual
\* escalation" when the request has none), and leaves department, priority,
\* reporter, assignee, due-by, created-at and the comments of the issue as
\* they were.
C12_EscalateEffect ==
  [][ (Handles("escalate") /\ ErrorKind(res') = "ok")
        => LET old == issuesMap[req'.id]
               new == issuesMap'[req'.id]
           IN /\ new.isEscalated
              /\ new.status = "escalated"
              /\ Appends("escalated",
                         [reason |-> IF req'.body.reason = Undefined
                                       THEN "Manual escalation" ELSE req'.body.reason])
              /\ new.department = old.department
              /\ new.priority = old.priority
              /\ new.reporterId = old.reporterId
              /\ new.assigneeId = old.assigneeId
              /\ new.dueBy = old.dueBy
              /\ new.createdAt = old.createdAt
              /\ new.comments = old.comments ]_vars

\* C12 witness: an assigned issue was escalated with a reason; the activity
\* carries the reason and the assignee is still there.
C12_EscalatedWithReason ==
  /\ req.op = "escalate"
  /\ req.body.reason = "No reply"
  /\ res.code = 200
  /\ activitiesMap[Len(activitiesMap)].action = "escalated"
  /\ activitiesMap[Len(activitiesMap)].details.reason = "No reply"
  /\ issuesMap[req.id].assigneeId = 2
  /\ issuesMap[req.id].status = "escalated"

\* C13: while an issue's status is escalated, a step that changes the status
\* is the request of an Admin; every updateStatus of an Employee or of
\* Department-Staff against it is rejected and changes nothing; getIssue and
\* addComment (with a text) of every actor in scope succeed.
C13_EscalatedFrozen ==
  [][ \A i \in DOMAIN issuesMap :
        issuesMap[i].status = "escalated"
          => /\ issuesMap'[i].status # "escalated"
                  => usersMap[req'.userId].role = "admin"
             /\ (Handles("updateStatus") /\ req'.id = i
                   /\ usersMap[req'.userId].role \in {"employee", "department"})
                  => /\ ErrorKind(res') \in {"InvalidTransition", "Forbidden"}
                     /\ Untouched(i)
                     /\ LogUntouched
             /\ (Handles("getIssue") /\ req'.id = i
                   /\ InScope(usersMap[req'.userId], issuesMap[i]))
                  => /\ ErrorKind(res') = "ok"
                     /\ res'.issues[1].status = "escalated"
             /\ (Handles("addComment") /\ req'.id = i
                   /\ req'.body.text \notin {"", Undefined}
                   /\ InScope(usersMap[req'.userId], issuesMap[i]))
                  => /\ ErrorKind(res') = "ok"
                     /\ Len(issuesMap'[i].comments) = Len(issuesMap[i].comments) + 1
                     /\ issuesMap'[i].status = "escalated" ]_vars

\* C13 witness: Department-Staff of the issue's department asked to move an
\* escalated issue to in_progress and was answered Invalid status transition.
C13_StaffBlockedOnEscalated ==
  /\ req.op = "updateStatus"
  /\ req.userId = 2
  /\ req.body.status = "in_progress"
  /\ req.id \in DOMAIN issuesMap
  /\ issuesMap[req.id].status = "escalated"
  /\ issuesMap[req.id].department = "IT"
  /\ res = InvalidStatusTransition

\* C14 as stated: reassignDepartment to the issue's current department is
\* answered NoOpChange whoever sends it, appends no activity and leaves the
\* issue unchanged.
C14_SameDepartmentAlwaysNoOp ==
  [][ (Handles("reassignDepartment")
         /\ req'.body.department = issuesMap[req'.id].department)
        => /\ ErrorKind(res') = "NoOpChange"
           /\ Untouched(req'.id)
           /\ LogUntouched ]_vars

\* C14 as amended: reassignDepartment to the issue's current department, one
\* of the five departments, is answered NoOpChange when an Admin sends it and
\* Forbidden when anybody else does; it appends no activity and leaves the
\* issue unchanged.
C14_SameDepartmentRejected ==
  [][ (Handles("reassignDepartment")
         /\ req'.body.department \in Department
         /\ req'.body.department = issuesMap[req'.id].department)
        => /\ ErrorKind(res') = IF usersMap[req'.userId].role = "admin"
                                  THEN "NoOpChange" ELSE "Forbidden"
           /\ Untouched(req'.id)
           /\ LogUntouched ]_vars

\* C14 witness: the Admin asked to reassign an issue to the department it is
\* in and was answered that it is already assigned to this department.
C14_AdminNoOp ==
  /\ req.op = "reassignDepartment"
  /\ req.userId = 1
  /\ req.id \in DOMAIN issuesMap
  /\ req.body.department = issuesMap[req.id].department
  /\ res = Answer(400, "Issue is already assigned to this department")

C17_DueByFromPriority ==
  \A i \in DOMAIN issuesMap :
    LET issue == issuesMap[i]
    IN /\ issue.priority \in SLAPriority
            => issue.dueBy = issue.createdAt + SLATimes[issue.priority]
       /\ issue.dueBy # NoDate <=> issue.priority \notin {"", Undefined}

\* C17 witness: a low-priority issue created after the start, due 48
\* hours after its creation.
C17_LowDueIn48 ==
  \E i \in DOMAIN issuesMap :
    /\ issuesMap[i].priority = "low"
    /\ issuesMap[i].createdAt > 0
    /\ issuesMap[i].dueBy = issuesMap[i].createdAt + 48

\* The SLA status the specification gives an issue with a due-by time at
\* time t.
ExpectedSla(issue, t) ==
  IF issue.status \in Terminal THEN "completed"
  ELSE IF t > issue.dueBy THEN "breached"
  ELSE IF (issue.dueBy - t) * 100 <= 25 * (issue.dueBy - issue.createdAt) THEN "at_risk"
  ELSE "on_track"

\* C18: every issue with a due-by time that getIssue returns carries the SLA
\* status completed if its status is verified or closed, else breached if
\* now > dueBy, else at_risk if at most 25% of the time from creation to
\* due-by is left, else on_track; at now = dueBy it is at_risk; and, in
\* minutes, a critical issue created at 0 (due at 240) is at_risk at 195 and
\* breached at 241.
C18_SlaStatusOnRead ==
  /\ (req.op = "getIssue" /\ res.code = 200 /\ res.issues[1].dueBy # NoDate)
       => LET issue == res.issues[1]
          IN /\ issue.slaStatus = ExpectedSla(issue, now)
             /\ issuesMap[req.id].slaStatus = issue.slaStatus
             /\ (now = issue.dueBy /\ issue.status \notin Terminal)
                  => issue.slaStatus = "at_risk"
  /\ LET critical == [status |-> "open", createdAt |-> 0, dueBy |-> 240]
     IN /\ calculateSlaStatus(critical, 195) = "at_risk"
        /\ calculateSlaStatus(critical, 241) = "breached"

\* C18 witness: a critical issue read at its due-by time, four hours after
\* its creation, is at risk.
C18_AtRiskAtDue ==
  /\ req.op = "getIssue"
  /\ res.code = 200
  /\ res.issues[1].priority = "critical"
  /\ res.issues[1].status = "open"
  /\ now = res.issues[1].dueBy
  /\ now = res.issues[1].createdAt + 4
  /\ res.issues[1].slaStatus = "at_risk"

\* C19: every issue createIssue produces has status open, slaStatus
\* on_track, isEscalated false, no assignee, no comments and an id no stored
\* issue has, whatever the request carries, and exactly one created activity
\* for that issue is appended.
C19_CreatedIssueIsFresh ==
  [][ (Idle /\ req'.op = "createIssue" /\ ErrorKind(res') = "ok")
        => /\ Len(issuesMap') = Len(issuesMap) + 1
           /\ SubSeq(issuesMap', 1, Len(issuesMap)) = issuesMap
           /\ LET issue == issuesMap'[Len(issuesMap')]
                  a == activitiesMap'[Len(activitiesMap')]
              IN /\ issue.status = "open"
                 /\ issue.slaStatus = "on_track"
                 /\ ~issue.isEscalated
                 /\ issue.assigneeId = NoUser
                 /\ issue.comments = << >>
                 /\ \A i \in DOMAIN issuesMap : issuesMap[i].id # issue.id
                 /\ Len(activitiesMap') = Len(activitiesMap) + 1
                 /\ SubSeq(activitiesMap', 1, Len(activitiesMap)) = activitiesMap
                 /\ a.action = "created"
                 /\ a.issueId = issue.id ]_vars

\* C20: createIssue with a missing or empty title or description, or with a
\* priority that is not one of low, medium, high, critical, is answered
\* ValidationError, and no issue and no activity is created.
C20_InvalidCreateRejected ==
  [][ (Idle /\ req'.op = "createIssue"
         /\ \/ req'.body.title \in {Undefined, ""}
            \/ req'.body.description \in {Undefined, ""}
            \/ req'.body.priority \notin SLAPriority)
        => /\ ErrorKind(res') = "ValidationError"
           /\ issuesMap' = issuesMap
           /\ issueIdCounter' = issueIdCounter
           /\ LogUntouched ]_vars

\* C21: the reporterId of every created issue is the id of the actor who
\* sent the request, whatever reporterId the body carries, and no step
\* changes the reporterId of a stored issue.
C21_ReporterIsActor ==
  [][ /\ (Idle /\ req'.op = "createIssue" /\ ErrorKind(res') = "ok")
           => /\ issuesMap'[Len(issuesMap')].reporterId = req'.userId
              /\ res'.issues[1].reporterId = req'.userId
      /\ \A i \in DOMAIN issuesMap :
           issuesMap'[i].reporterId = issuesMap[i].reporterId ]_vars

\* C21 witness: employee 3 created an issue with a body that names user 1 as
\* reporter; the stored issue names 3.
C21_BodyReporterIgnored ==
  /\ req.op = "createIssue"
  /\ req.userId = 3
  /\ req.body.reporterId = 1
  /\ res.code = 201
  /\ issuesMap[Len(issuesMap)].reporterId = 3

\* C22: assign on a stored issue succeeds exactly for Department-Staff of the
\* issue's department and for an Admin; on success it sets the assignee,
\* moves the status to in_progress if it was open and leaves it otherwise,
\* and appends exactly one assigned activity; on failure nothing changes.
C22_AssignEffect ==
  [][ Handles("assign")
        => LET user == usersMap[req'.userId]
               old == issuesMap[req'.id]
               new == issuesMap'[req'.id]
           IN /\ ErrorKind(res') = "ok"
                   <=> \/ user.role = "admin"
                       \/ user.role = "department" /\ user.department = old.department
              /\ ErrorKind(res') = "ok"
                   => /\ new.assigneeId = req'.body.assigneeId
                      /\ new.status = IF old.status = "open" THEN "in_progress"
                                                             ELSE old.status
                      /\ Appends("assigned", [assigneeId |-> req'.body.assigneeId])
              /\ ErrorKind(res') # "ok"
                   => /\ ErrorKind(res') = "Forbidden"
                      /\ Untouched(req'.id)
                      /\ LogUntouched ]_vars

\* C22 witness: Department-Staff assigned a pending issue of their
\* department; it is still pending.
C22_PendingStaysPending ==
  /\ req.op = "assign"
  /\ req.userId = 2
  /\ res.code = 200
  /\ issuesMap[req.id].assigneeId = 2
  /\ issuesMap[req.id].status = "pending"

\* C23: addComment by an actor in scope of a stored issue, with a text that
\* is empty or longer than 500 characters, is answered ValidationError, and
\* the issue's comments and the activity log are unchanged.
C23_BadCommentRejected ==
  [][ (Handles("addComment")
         /\ InScope(usersMap[req'.userId], issuesMap[req'.id])
         /\ \/ req'.body.text \in {"", Undefined}
            \/ Len(req'.body.text) > 500)
        => /\ ErrorKind(res') = "ValidationError"
           /\ issuesMap'[req'.id].comments = issuesMap[req'.id].comments
           /\ LogUntouched ]_vars

\* C24: comments are append-only: every step keeps the comments of every
\* issue as a prefix of its comments; a successful addComment adds exactly
\* one, at the end, with the author's id, the author's display name, the
\* text and the time, and appends one commented activity that names it; no
\* other step adds a comment.
C24_CommentsAppendOnly ==
  [][ /\ \A i \in DOMAIN issuesMap :
           LET old == issuesMap[i].comments
               new == issuesMap'[i].comments
           IN /\ Len(new) >= Len(old)
              /\ SubSeq(new, 1, Len(old)) = old
              /\ IF Handles("addComment") /\ req'.id = i /\ ErrorKind(res') = "ok"
                   THEN /\ Len(new) = Len(old) + 1
                        /\ new[Len(new)].userId = req'.userId
                        /\ new[Len(new)].userName = usersMap[req'.userId].fullName
                        /\ new[Len(new)].text = req'.body.text
                        /\ new[Len(new)].timestamp = now
                        /\ Appends("commented", [commentId |-> new[Len(new)].id])
                   ELSE new = old ]_vars

\* C24 witness: the reporter commented, the status was updated afterwards,
\* and the comment is still the issue's first.
C24_CommentSurvivesUpdate ==
  /\ Len(activitiesMap) = 3
  /\ activitiesMap[2].action = "commented"
  /\ activitiesMap[3].action = "updated_status"
  /\ Len(issuesMap[1].comments) = 1
  /\ issuesMap[1].comments[1].userId = 3
  /\ issuesMap[1].comments[1].userName = "Regular Employee"

\* The operations that mutate, and the kind of activity each records.
ActivityOf ==
  [createIssue |-> "created", updateStatus |-> "updated_status", assign |-> "assigned",
   escalate |-> "escalated", reassignDepartment |-> "department_changed",
   addComment |-> "commented"]

\* C25: every step keeps the activity log as a prefix of the log; a
\* successful createIssue, updateStatus, assign, escalate, reassignDepartment
\* or addComment appends exactly one record, of the operation's kind, for the
\* issue and with the actor's id; a rejected one, and every other step,
\* appends none.
C25_OneActivityPerMutation ==
  [][ LET n == Len(activitiesMap)
      IN /\ Len(activitiesMap') >= n
         /\ SubSeq(activitiesMap', 1, n) = activitiesMap
         /\ IF Idle /\ req'.op \in DOMAIN ActivityOf /\ ErrorKind(res') = "ok"
              THEN /\ Len(activitiesMap') = n + 1
                   /\ activitiesMap'[n + 1].userId = req'.userId
                   /\ activitiesMap'[n + 1].action = ActivityOf[req'.op]
                   /\ activitiesMap'[n + 1].issueId =
                        IF req'.op = "createIssue" THEN issuesMap'[Len(issuesMap')].id
                                                   ELSE req'.id
                   /\ \A k \in 1..n : activitiesMap[k].id # activitiesMap'[n + 1].id
              ELSE activitiesMap' = activitiesMap ]_vars

\* C25 witness: three operations by three actors left three records, and a
\* fourth, rejected one left none.
C25_RejectedLeavesLog ==
  /\ req.op = "updateStatus"
  /\ res = InvalidStatusTransition
  /\ Len(activitiesMap) = 3
  /\ activitiesMap[1].userId = 3
  /\ activitiesMap[2].userId = 2
  /\ activitiesMap[3].userId = 1

\* C26: no step changes the priority, the reporter, the creation time or the
\* due-by time of a stored issue.
C26_CreationFieldsFrozen ==
  [][ \A i \in DOMAIN issuesMap :
        /\ issuesMap'[i].priority = issuesMap[i].priority
        /\ issuesMap'[i].reporterId = issuesMap[i].reporterId
        /\ issuesMap'[i].createdAt = issuesMap[i].createdAt
        /\ issuesMap'[i].dueBy = issuesMap[i].dueBy ]_vars

\* C26 witness: a critical issue created at 0 was updated twice, the second
\* time after its deadline, and is still due at 4.
C26_DeadlineKept ==
  /\ Len(activitiesMap) = 3
  /\ activitiesMap[3].action = "updated_status"
  /\ issuesMap[1].priority = "critical"
  /\ issuesMap[1].createdAt = 0
  /\ issuesMap[1].updatedAt = 5
  /\ issuesMap[1].dueBy = 4

\* C27: getIssue and listActivities on a stored issue, and addComment with a
\* text, succeed exactly when the issue is in the actor's scope (an Employee
\* who reported it, Department-Staff of its current department, an Admin) and
\* are answered Forbidden otherwise.
C27_ReadScope ==
  [][ (\/ Handles("getIssue")
       \/ Handles("listActivities")
       \/ Handles("addComment") /\ req'.body.text \notin {"", Undefined})
        => IF InScope(usersMap[req'.userId], issuesMap[req'.id])
             THEN ErrorKind(res') = "ok"
             ELSE ErrorKind(res') = "Forbidden" ]_vars

\* C27 witness: an issue was reassigned from IT to HR, and the IT staff's
\* request to read it was answered Forbidden.
C27_OldStaffLoseAccess ==
  /\ req.op \in {"getIssue", "listActivities"}
  /\ req.userId = 2
  /\ res = Forbidden
  /\ issuesMap[req.id].department = "HR"
  /\ \E k \in DOMAIN activitiesMap :
       /\ activitiesMap[k].action = "department_changed"
       /\ activitiesMap[k].details = [fromDepartment |-> "IT", toDepartment |-> "HR"]

\* C28: the statusCounts of every analytics report have a count for each of
\* the eight statuses, each the number of stored issues with that status
\* (zero when there is none), and the counts add up to the number of issues.
C28_CountsForEveryStatus ==
  (req.op = "getAnalytics" /\ res.code = 200)
    => LET counts == res.issues[1].statusCounts
       IN /\ DOMAIN counts = IssueStatus
          /\ \A st \in IssueStatus :
               counts[st] = Cardinality({i \in DOMAIN issuesMap : issuesMap[i].status = st})
          /\ counts["open"] + counts["in_progress"] + counts["pending"]
               + counts["completed"] + counts["verified"] + counts["rejected"]
               + counts["closed"] + counts["escalated"] = Len(issuesMap)

MutatingOps ==
  {"createIssue", "updateStatus", "assign", "escalate", "addComment", "reassignDepartment"}

\* The records of the log that belong to issue i.
ActivitiesOf(log, i) ==
  LET ofIssue(a) == a.issueId = i
  IN SelectSeq(log, ofIssue)

\* C31: operations on different issues are independent.  A mutating
\* operation that names issue A (or creates it), answered with success or
\* with a failure, leaves the status, department, assignee, isEscalated flag
\* and comments of every other stored issue B as they were, and the
\* activities recorded for B are the same before and after.
C31_OtherIssuesUntouched ==
  [][ (Idle /\ req'.op \in MutatingOps)
        => LET A == IF req'.op = "createIssue" THEN issueIdCounter ELSE req'.id
           IN \A B \in DOMAIN issuesMap \ {A} :
                /\ issuesMap'[B].status = issuesMap[B].status
                /\ issuesMap'[B].department = issuesMap[B].department
                /\ issuesMap'[B].assigneeId = issuesMap[B].assigneeId
                /\ issuesMap'[B].isEscalated = issuesMap[B].isEscalated
                /\ issuesMap'[B].comments = issuesMap[B].comments
                /\ ActivitiesOf(activitiesMap', B) = ActivitiesOf(activitiesMap, B) ]_vars

\* C31 witness: the status of issue 1 was updated to closed while issue 2,
\* open and of another department, is stored beside it with its one activity.
C31_ClosedBesideOpen ==
  /\ req.op = "updateStatus" /\ req.id = 1 /\ res.code = 200
  /\ Len(issuesMap) = 2
  /\ issuesMap[1].status = "closed"
  /\ issuesMap[2].status = "open"
  /\ issuesMap[2].department # issuesMap[1].department
  /\ Len(ActivitiesOf(activitiesMap, 2)) = 1

\* C32: listActivitiesForIssue answers with exactly the activities recorded
\* for the issue, each once, ordered by creation timestamp (the latest
\* first); activities of one timestamp follow each other in the order they
\* were recorded in.
C32_ActivitiesOfIssueInOrder ==
  [][ (Handles("listActivities") /\ res'.code = 200)
        => LET listed == res'.issues
               recorded == ActivitiesOf(activitiesMap, req'.id)
           IN /\ Len(listed) = Len(recorded)
              /\ \A k \in DOMAIN recorded : \E j \in DOMAIN listed : listed[j] = recorded[k]
              /\ \A j \in DOMAIN listed : listed[j].issueId = req'.id
              /\ \A j \in 1..(Len(listed) - 1) :
                    \/ listed[j].createdAt > listed[j + 1].createdAt
                    \/ /\ listed[j].createdAt = listed[j + 1].createdAt
                       /\ listed[j].id < listed[j + 1].id ]_vars

\* C32 witness: two activities of one issue that share their timestamp were
\* listed while the log also holds an activity of the other issue.
C32_TieListedBesideOtherIssue ==
  /\ req.op = "listActivities" /\ res.code = 200
  /\ Len(res.issues) = 2
  /\ res.issues[1].createdAt = res.issues[2].createdAt
  /\ \E k \in DOMAIN activitiesMap : activitiesMap[k].issueId # req.id

\* The operations that answer with an issue or a list of issues.
IssueOps ==
  {"createIssue", "getIssue", "listAllIssues", "listMyIssues", "listDepartmentIssues",
   "updateStatus", "assign", "escalate", "addComment", "reassignDepartment"}

\* C33: every issue a read or a mutating operation answers with carries the
\* SLA status the SLA calculator gives that very issue at the current time,
\* and that status is completed exactly when the issue's status is verified
\* or closed.
C33_ReturnedSlaIsFresh ==
  (req.op \in IssueOps /\ res.code \in {200, 201})
    => \A k \in DOMAIN res.issues :
         LET issue == res.issues[k]
         IN /\ issue.slaStatus = calculateSlaStatus(issue, now)
            /\ issue.slaStatus = "completed" <=> issue.status \in Terminal

\* The operations that name an issue by its id.
AddressedOps ==
  {"getIssue", "listActivities", "updateStatus", "assign", "escalate", "addComment",
   "reassignDepartment"}

\* This step answers a request with a failure.
Rejects == Idle /\ req'.op # "none" /\ res'.code \notin {200, 201}

\* The role of the actor is one the operation is open to.
RoleMayDo(user, op) ==
  CASE op = "assign"             -> user.role \in {"department", "admin"}
    [] op = "reassignDepartment" -> user.role = "admin"
    [] OTHER                     -> TRUE

\* The request carries what the operation requires.
WellFormed(request) ==
  CASE request.op = "addComment" -> request.body.text \notin {Undefined, ""}
    [] request.op = "reassignDepartment" -> request.body.department \in Department
    [] OTHER -> TRUE

\* A rejected step changes no stored issue (the cached slaStatus aside) and
\* no record of the log.
NothingChanged ==
  /\ DOMAIN issuesMap' = DOMAIN issuesMap
  /\ \A i \in DOMAIN issuesMap : Untouched(i)
  /\ LogUntouched

C35_EscalatedStatusIsFlagged ==
  \A i \in DOMAIN issuesMap : issuesMap[i].status = "escalated" => issuesMap[i].isEscalated

\* C36: for every issue the log holds at most one escalated activity,
\* whatever escalate requests the reporter, the staff and the Admin send and
\* in whatever order.
C36_OneEscalatedActivity ==
  \A i \in DOMAIN issuesMap :
    Cardinality({k \in DOMAIN activitiesMap :
                   /\ activitiesMap[k].issueId = i
                   /\ activitiesMap[k].action = "escalated"}) <= 1

C38_ClosedOnlyByAdmin ==
  [][ (Idle /\ req'.op # "none" /\ usersMap[req'.userId].role \in {"employee", "department"})
        => \A i \in DOMAIN issuesMap' :
             (i \notin DOMAIN issuesMap \/ issuesMap'[i].status # issuesMap[i].status)
               => issuesMap'[i].status \in IssueStatus \ {"closed"} ]_vars

\* C39: listRecentActivities(limit) answers any actor with the limit most
\* recent of the activities of the issues within the actor's scope, all of
\* them when they are fewer than limit, and with no activity of an issue
\* outside that scope.
C39_RecentWithinScope ==
  (req.op = "listRecentActivities" /\ res.code = 200)
    => LET user == usersMap[req.userId]
           limit == IF req.id = 0 THEN 10 ELSE req.id
           readable(a) == InScope(user, issuesMap[a.issueId])
           inScope == SelectSeq(activitiesMap, readable)
           listed == res.issues
           isListed(a) == \E j \in DOMAIN listed : listed[j] = a
       IN /\ \A j \in DOMAIN listed : readable(listed[j])
          /\ Len(listed) = IF limit < Len(inScope) THEN limit ELSE Len(inScope)
          /\ \A j \in DOMAIN listed, k \in DOMAIN inScope :
               ~isListed(inScope[k]) => listed[j].createdAt >= inScope[k].createdAt
====
